---- MODULE Spec2Model ----
(***************************************************************************)
(* A model of ha_shortcuts.py: the background-listener lifecycle (pid file *)
(* and log file), the command surface (main), config loading/validation,  *)
(* the trigger-once path and the hotkey dispatcher with its two backends.  *)
(***************************************************************************)
EXTENDS Integers, Sequences, FiniteSets, TLC

VARIABLES
    pidFile,    \* PID_FILE: [exists, text], text a sequence of characters
    logFile,    \* LOG_FILE exists
    procs,      \* OS process table restricted to listeners spawned by start_background
    last,       \* the last lifecycle operation: its inputs and what it observed/returned
    argv,       \* main: the parsed command line of the invocation
    cfgFile,    \* main: the config file the invocation finds on disk
    mpc,        \* main: "start" before the invocation ran, "done" after
    out,        \* main: what the invocation did (events in order, exit code, HTTP calls)
    lin,        \* listener: the arguments of register_hotkeys and the usable backends
    lpc,        \* listener: Idle, Registering, Listening, Aborted, Terminated
    idx,        \* listener: position of the registration loop in the shortcut list
    hotkeys,    \* listener: the handlers registered so far, in registration order
    threads,    \* listener: trigger_action threads in flight, per shortcut
    started,    \* listener: number of threads started so far
    ev,         \* listener: the last step taken (key event, thread end, ...)
    lret        \* listener: main's return value, -1 while it has not returned

lifeVars == <<pidFile, logFile, procs, last>>
mainVars == <<argv, cfgFile, mpc, out>>
listenVars == <<lin, lpc, idx, hotkeys, threads, started, ev, lret>>

vars == <<pidFile, logFile, procs, last, argv, cfgFile, mpc, out,
          lin, lpc, idx, hotkeys, threads, started, ev, lret>>

(***************************************************************************)
(* Bounds                                                                  *)
(***************************************************************************)
MaxPid == 2
MaxShortcuts == 2
MaxThreads == 3

Pids == 1..MaxPid
Users == {"root", "user"}
Backends == {"keyboard", "pynput"}
ConfigPaths == {"config.yaml", "alt.json"}

(***************************************************************************)
(* Text of the pid file: str(pid), .strip(), int(text)                     *)
(***************************************************************************)
Digits == <<"0", "1", "2", "3", "4", "5", "6", "7", "8", "9">>
Whitespace == {" ", "\n"}

DigitChar(d) == Digits[d + 1]

DigitVal(ch) == CHOOSE d \in 0..9 : Digits[d + 1] = ch

IsDigit(ch) == \E d \in 0..9 : Digits[d + 1] = ch

RECURSIVE Str(_)
Str(n) == IF n < 10 THEN <<DigitChar(n)>> ELSE Str(n \div 10) \o <<DigitChar(n % 10)>>

RECURSIVE LStrip(_)
LStrip(s) == IF s # <<>> /\ Head(s) \in Whitespace THEN LStrip(Tail(s)) ELSE s

RECURSIVE RStrip(_)
RStrip(s) ==
    IF s # <<>> /\ s[Len(s)] \in Whitespace THEN RStrip(SubSeq(s, 1, Len(s) - 1)) ELSE s

Strip(s) == RStrip(LStrip(s))

\* int(text) succeeds on a non-empty run of decimal digits and raises ValueError otherwise
IsIntText(s) == s # <<>> /\ \A i \in 1..Len(s) : IsDigit(s[i])

RECURSIVE ParseInt(_)
ParseInt(s) ==
    IF Len(s) = 1 THEN DigitVal(s[1])
    ELSE 10 * ParseInt(SubSeq(s, 1, Len(s) - 1)) + DigitVal(s[Len(s)])

(***************************************************************************)
(* OS primitives: os.kill, process table                                   *)
(***************************************************************************)
NoCmd == [listen |-> FALSE, backend |-> "", config |-> ""]
DeadProc == [alive |-> FALSE, owner |-> "", cmd |-> NoCmd]

Absent == [exists |-> FALSE, text |-> <<>>]
FileWith(t) == [exists |-> TRUE, text |-> t]

Alive(pr) == {p \in DOMAIN pr : pr[p].alive}

\* os.kill(pid, sig) by user u: "ok", ProcessLookupError ("ESRCH") or PermissionError ("EPERM")
KillOutcome(pr, u, pid) ==
    IF pid \notin DOMAIN pr \/ ~pr[pid].alive THEN "ESRCH"
    ELSE IF u = "root" \/ pr[pid].owner = u THEN "ok"
    ELSE "EPERM"

\* _is_running: os.kill(pid, 0); any OSError means "not running"
is_running(pr, u, pid) == KillOutcome(pr, u, pid) = "ok"

\* SIGTERM delivered: the listener installs no handler, the default action ends it
Terminate(pr, pid) == [pr EXCEPT ![pid] = DeadProc]

(***************************************************************************)
(* start_background                                                        *)
(***************************************************************************)
ChildCmd(backend, config) == [listen |-> TRUE, backend |-> backend, config |-> config]

Spawn(pf, pr, u, backend, config, spawnOk, newPid) ==
    IF spawnOk
    THEN [pidFile |-> FileWith(Str(newPid)), logFile |-> TRUE,
          procs |-> [pr EXCEPT ![newPid] =
                        [alive |-> TRUE, owner |-> u, cmd |-> ChildCmd(backend, config)]],
          ret |-> 0, raised |-> "", sig |-> "none", spawned |-> newPid]
    ELSE [pidFile |-> pf, logFile |-> TRUE, procs |-> pr,
          ret |-> 1, raised |-> "", sig |-> "none", spawned |-> 0]

\* start_background without the liveness probe: any existing pid file counts as stale
start_background_unprobed(pf, lf, pr, u, backend, config, spawnOk, newPid) ==
    IF pf.exists /\ Strip(pf.text) # <<>> /\ ~IsIntText(Strip(pf.text))
    THEN [pidFile |-> pf, logFile |-> lf, procs |-> pr,
          ret |-> 1, raised |-> "ValueError", sig |-> "none", spawned |-> 0]
    ELSE Spawn(Absent, pr, u, backend, config, spawnOk, newPid)

start_background(pf, lf, pr, u, backend, config, spawnOk, newPid) ==
    IF pf.exists
    THEN LET pid == Strip(pf.text) IN
         IF pid # <<>> /\ ~IsIntText(pid)
         THEN \* int(pid) raises ValueError, which nothing catches
              [pidFile |-> pf, logFile |-> lf, procs |-> pr,
               ret |-> 1, raised |-> "ValueError", sig |-> "none", spawned |-> 0]
         ELSE IF pid # <<>> /\ is_running(pr, u, ParseInt(pid))
         THEN [pidFile |-> pf, logFile |-> lf, procs |-> pr,
               ret |-> 1, raised |-> "", sig |-> "none", spawned |-> 0]
         ELSE Spawn(Absent, pr, u, backend, config, spawnOk, newPid)
    ELSE Spawn(pf, pr, u, backend, config, spawnOk, newPid)

(***************************************************************************)
(* stop_background                                                         *)
(***************************************************************************)
\* stop_background that cleans up the pid file only and leaves the log file behind
stop_background_keeps_log(pf, lf, pr, u) ==
    IF ~pf.exists
    THEN [pidFile |-> pf, logFile |-> lf, procs |-> pr,
          ret |-> 1, raised |-> "", sig |-> "none", spawned |-> 0]
    ELSE IF ~IsIntText(Strip(pf.text))
    THEN [pidFile |-> Absent, logFile |-> lf, procs |-> pr,
          ret |-> 1, raised |-> "", sig |-> "none", spawned |-> 0]
    ELSE LET pid == ParseInt(Strip(pf.text))
             o == KillOutcome(pr, u, pid)
         IN  [pidFile |-> Absent, logFile |-> lf,
              procs |-> IF o = "ok" THEN Terminate(pr, pid) ELSE pr,
              ret |-> IF o = "EPERM" THEN 1 ELSE 0,
              raised |-> "", sig |-> o, spawned |-> 0]

stop_background(pf, lf, pr, u) ==
    IF ~pf.exists
    THEN [pidFile |-> pf, logFile |-> lf, procs |-> pr,
          ret |-> 1, raised |-> "", sig |-> "none", spawned |-> 0]
    ELSE IF ~IsIntText(Strip(pf.text))
    THEN [pidFile |-> Absent, logFile |-> lf, procs |-> pr,
          ret |-> 1, raised |-> "", sig |-> "none", spawned |-> 0]
    ELSE LET pid == ParseInt(Strip(pf.text))
             o == KillOutcome(pr, u, pid)
         IN  \* the finally clause unlinks both files on every path out of the try
             [pidFile |-> Absent, logFile |-> FALSE,
              procs |-> IF o = "ok" THEN Terminate(pr, pid) ELSE pr,
              ret |-> IF o = "EPERM" THEN 1 ELSE 0,
              raised |-> "", sig |-> o, spawned |-> 0]

(***************************************************************************)
(* Config Model: load_config, validate_config                              *)
(***************************************************************************)
\* a key that the mapping does not hold
Missing == "<missing>"

\* hotkey values: key absent, None (null), or a string seen as its "+"-separated tokens
NoHotkey == [set |-> "missing", toks |-> <<>>]
NoneHotkey == [set |-> "none", toks |-> <<>>]
Hotkey(toks) == [set |-> "str", toks |-> toks]

Lower(x) ==
    CASE x = ".YML" -> ".yml"
      [] x = "Alt" -> "alt"
      [] x = "L" -> "l"
      [] OTHER -> x

Upper(x) ==
    CASE x = "post" -> "POST"
      [] x = "get" -> "GET"
      [] OTHER -> x

StripTok(x) ==
    CASE x = " l" -> "l"
      [] x = " " -> ""
      [] OTHER -> x

NoValue == [kind |-> "none",
            server |-> [kind |-> "missing", base_url |-> <<>>, hasBaseUrl |-> FALSE,
                        token |-> Missing],
            shortcuts |-> [kind |-> "missing", items |-> <<>>]]

load_config(f) ==
    IF ~f.exists THEN [status |-> "ConfigError", value |-> NoValue]
    ELSE IF Lower(f.suffix) \in {".yaml", ".yml"}
    THEN \* yaml.safe_load: JSON text is YAML too
         IF f.content \in {"yaml", "json"}
         THEN [status |-> "ok", value |-> f.value]
         ELSE [status |-> "ConfigError", value |-> NoValue]
    ELSE \* json.loads
         IF f.content = "json"
         THEN [status |-> "ok", value |-> f.value]
         ELSE [status |-> "ConfigError", value |-> NoValue]

RequiredFields == <<"name", "method", "endpoint">>

\* action.setdefault("body", {}); action.setdefault("hotkey", None)
SetDefaults(action) ==
    [action EXCEPT !.body = IF @ = Missing THEN "{}" ELSE @,
                   !.hotkey = IF @.set = "missing" THEN NoneHotkey ELSE @]

\* the loop over cfg["shortcuts"]: the first entry that fails decides the outcome
RECURSIVE ValidateShortcuts(_)
ValidateShortcuts(items) ==
    IF items = <<>> THEN [status |-> "ok", items |-> <<>>]
    ELSE LET action == Head(items) IN
         IF action.kind # "map"
         THEN \* `field not in None` raises TypeError
              [status |-> "TypeError", items |-> <<>>]
         ELSE IF \E i \in 1..Len(RequiredFields) : action[RequiredFields[i]] = Missing
         THEN [status |-> "ConfigError", items |-> <<>>]
         ELSE LET rest == ValidateShortcuts(Tail(items)) IN
              IF rest.status # "ok" THEN rest
              ELSE [status |-> "ok", items |-> <<SetDefaults(action)>> \o rest.items]

validate_config(cfg) ==
    IF cfg.kind # "map"
    THEN \* `"server" not in None` raises TypeError
         [status |-> "TypeError", cfg |-> cfg]
    ELSE IF cfg.server.kind = "missing" \/ cfg.shortcuts.kind = "missing"
    THEN [status |-> "ConfigError", cfg |-> cfg]
    ELSE IF cfg.server.kind # "map"
    THEN [status |-> "TypeError", cfg |-> cfg]
    ELSE IF ~cfg.server.hasBaseUrl \/ cfg.server.token = Missing
    THEN [status |-> "ConfigError", cfg |-> cfg]
    ELSE IF cfg.shortcuts.kind # "list"
    THEN [status |-> "ConfigError", cfg |-> cfg]
    ELSE LET v == ValidateShortcuts(cfg.shortcuts.items) IN
         IF v.status # "ok" THEN [status |-> v.status, cfg |-> cfg]
         ELSE [status |-> "ok", cfg |-> [cfg EXCEPT !.shortcuts.items = v.items]]

(***************************************************************************)
(* Action Executor: send_request, trigger_action                           *)
(***************************************************************************)
RequestTimeout == 15

RECURSIVE RStripSlash(_)
RStripSlash(s) ==
    IF s # <<>> /\ s[Len(s)] = "/" THEN RStripSlash(SubSeq(s, 1, Len(s) - 1)) ELSE s

\* the request handed to requests.request
send_request(server, action) ==
    [method |-> Upper(action.method),
     url |-> RStripSlash(server.base_url) \o <<action.endpoint>>,
     auth |-> <<"Bearer ", server.token>>,
     body |-> IF action.body = "{}" THEN "None" ELSE action.body,
     timeout |-> RequestTimeout]

\* http: [kind: "response" | "timeout" | "transport", status]; every exception is caught
trigger_action(server, action, source, http) ==
    [call |-> send_request(server, action),
     action |-> action,
     source |-> source,
     report |-> IF http.kind # "response" THEN "error"
                ELSE IF http.status < 400 THEN "ok" ELSE "fail"]

(***************************************************************************)
(* Hotkey Dispatcher: hotkey strings and the two backends' parsers         *)
(***************************************************************************)
\* `not hotkey`: None, a missing key, or the empty string
HotkeyFalsy(hk) == hk.set # "str" \/ hk.toks = <<"">>

Modifiers ==
    {"ctrl", "control", "alt", "option", "shift", "cmd", "command", "super", "win",
     "windows"}

SingleChars == {"l", "k"}

\* raw.strip().lower()
Part(tok) == Lower(StripTok(tok))

RECURSIVE ComboParts(_)
ComboParts(toks) ==
    IF toks = <<>> THEN <<>>
    ELSE LET part == Part(Head(toks)) IN
         IF part = "" THEN ComboParts(Tail(toks))
         ELSE IF part \in Modifiers THEN <<[wrapped |-> TRUE, key |-> part]>> \o ComboParts(Tail(toks))
         ELSE IF part \in SingleChars THEN <<[wrapped |-> FALSE, key |-> part]>> \o ComboParts(Tail(toks))
         ELSE <<[wrapped |-> TRUE, key |-> part]>> \o ComboParts(Tail(toks))

to_pynput_combo(hk) ==
    IF HotkeyFalsy(hk) THEN [status |-> "ConfigError", parts |-> <<>>]
    ELSE IF ComboParts(hk.toks) = <<>> THEN [status |-> "ConfigError", parts |-> <<>>]
    ELSE [status |-> "ok", parts |-> ComboParts(hk.toks)]

\* pynput's HotKey.parse: <name> must name a key, and no key may repeat
PynputKeyNames == {"ctrl", "alt", "shift", "cmd", "f5"}

PynputParses(parts) ==
    /\ \A i \in 1..Len(parts) : parts[i].wrapped => parts[i].key \in PynputKeyNames
    /\ \A i, j \in 1..Len(parts) : parts[i] = parts[j] => i = j

\* keyboard.add_hotkey raises ValueError for a key name it cannot map
KeyboardKeyNames == {"ctrl", "control", "alt", "shift", "f5", "l", "k"}

KeyboardAccepts(hk) ==
    \A i \in 1..Len(hk.toks) : Part(hk.toks[i]) \in KeyboardKeyNames

\* the keys a registered hotkey stands for
Combination(hk) == {Part(hk.toks[i]) : i \in {j \in 1..Len(hk.toks) : Part(hk.toks[j]) # ""}}

\* a registration loop that swallows a hotkey it cannot parse and goes on
RegisterOne_swallowing(backend, action) ==
    IF HotkeyFalsy(action.hotkey) THEN "skip"
    ELSE IF backend = "keyboard"
    THEN IF KeyboardAccepts(action.hotkey) THEN "ok" ELSE "skip"
    ELSE LET c == to_pynput_combo(action.hotkey) IN
         IF c.status # "ok" THEN "skip"
         ELSE IF PynputParses(c.parts) THEN "ok" ELSE "skip"

\* one iteration of the registration loop: "skip", "ok" or "ConfigError"
RegisterOne(backend, action) ==
    IF HotkeyFalsy(action.hotkey) THEN "skip"
    ELSE IF backend = "keyboard"
    THEN IF KeyboardAccepts(action.hotkey) THEN "ok" ELSE "ConfigError"
    ELSE LET c == to_pynput_combo(action.hotkey) IN
         IF c.status # "ok" THEN "ConfigError"
         ELSE IF PynputParses(c.parts) THEN "ok" ELSE "ConfigError"

\* keyboard is None / pynput_keyboard is None / unknown backend
BackendUsable(backend, avail) == backend \in avail /\ backend \in {"keyboard", "pynput"}

\* register_hotkeys as main sees it: it blocks listening or raises ConfigError
register_hotkeys(server, shortcuts, backend, avail) ==
    IF ~BackendUsable(backend, avail) THEN "ConfigError"
    ELSE IF \E i \in 1..Len(shortcuts) : RegisterOne(backend, shortcuts[i]) = "ConfigError"
    THEN "ConfigError"
    ELSE "listening"

(***************************************************************************)
(* Command Surface: main                                                   *)
(***************************************************************************)
\* args.trigger: None unless --trigger was given
NoTrigger == [given |-> FALSE, name |-> ""]
Trigger(n) == [given |-> TRUE, name |-> n]

\* `if args.trigger:` is the truth value of the string
TriggerTruthy(t) == t.given /\ t.name # ""

NoOut(pf, lf, pr) ==
    [events |-> <<>>, exit |-> 0, raised |-> "", state |-> "exited",
     listed |-> <<>>, http |-> <<>>,
     pidFile |-> pf, logFile |-> lf, procs |-> pr, sig |-> "none", spawned |-> 0]

\* [a for a in shortcuts if a.get("name") == args.trigger], as indices
Matches(shortcuts, name) == {i \in 1..Len(shortcuts) : shortcuts[i].name = name}

Min(S) == CHOOSE x \in S : \A y \in S : x <= y

ListLines(shortcuts) == [i \in 1..Len(shortcuts) |-> shortcuts[i].name]

\* main after the config is loaded and validated
AfterConfig(o, args, cfg, env) ==
    LET server == cfg.server
        shortcuts == cfg.shortcuts.items
        o1 == IF args.list
              THEN [o EXCEPT !.events = @ \o <<"list">>, !.listed = ListLines(shortcuts)]
              ELSE o
    IN  IF TriggerTruthy(args.trigger)
        THEN IF Matches(shortcuts, args.trigger.name) = {}
             THEN [o1 EXCEPT !.events = @ \o <<"trigger">>, !.exit = 1]
             ELSE [o1 EXCEPT !.events = @ \o <<"trigger">>,
                             !.http = <<trigger_action(server,
                                          shortcuts[Min(Matches(shortcuts, args.trigger.name))],
                                          "cli", env.http)>>,
                             !.exit = 0]
        ELSE IF args.listen \/ (~args.list /\ ~TriggerTruthy(args.trigger))
        THEN IF register_hotkeys(server, shortcuts, args.backend, env.avail) = "ConfigError"
             THEN [o1 EXCEPT !.events = @ \o <<"register_hotkeys">>, !.exit = 1]
             ELSE [o1 EXCEPT !.events = @ \o <<"register_hotkeys">>, !.state = "listening"]
        ELSE o1

main(args, f, pf, lf, pr, u, env) ==
    IF args.stop
    THEN LET r == stop_background(pf, lf, pr, u) IN
         [NoOut(r.pidFile, r.logFile, r.procs) EXCEPT
              !.events = <<"stop_background">>, !.exit = r.ret, !.sig = r.sig]
    ELSE IF args.background
    THEN LET r == start_background(pf, lf, pr, u, args.backend, f.path,
                                   env.spawnOk, env.newPid) IN
         [NoOut(r.pidFile, r.logFile, r.procs) EXCEPT
              !.events = <<"start_background">>, !.exit = r.ret, !.raised = r.raised,
              !.spawned = r.spawned]
    ELSE LET l == load_config(f)
             o == [NoOut(pf, lf, pr) EXCEPT !.events = <<"load_config">>]
         IN  IF l.status # "ok" THEN [o EXCEPT !.exit = 1]
             ELSE LET v == validate_config(l.value)
                      o1 == [o EXCEPT !.events = @ \o <<"validate_config">>]
                  IN  IF v.status = "ConfigError" THEN [o1 EXCEPT !.exit = 1]
                      ELSE IF v.status # "ok"
                      THEN \* not a ConfigError: the exception leaves main
                           [o1 EXCEPT !.exit = 1, !.raised = v.status]
                      ELSE AfterConfig(o1, args, v.cfg, env)

(***************************************************************************)
(* Lifecycle: operations as actions                                        *)
(***************************************************************************)
NoOp == [op |-> "none", user |-> "", backend |-> "", config |-> "", spawnOk |-> FALSE,
         ret |-> 0, raised |-> "", sig |-> "none", spawned |-> 0,
         prevOp |-> "none", prevRet |-> 0]

StalePid == MaxPid + 1

\* what may be on disk when the program is first run: nothing, or a pid file left behind
InitPidFiles ==
    {Absent, FileWith(<<>>), FileWith(<<"\n">>), FileWith(<<"a", "b">>),
     FileWith(Str(StalePid) \o <<"\n">>)}

\* the parts of the state a specification does not exercise
MainIdle ==
    /\ argv = <<>>
    /\ cfgFile = <<>>
    /\ mpc = "idle"
    /\ out = <<>>

ListenIdle ==
    /\ lin = <<>>
    /\ lpc = "none"
    /\ idx = 0
    /\ hotkeys = <<>>
    /\ threads = <<>>
    /\ started = 0
    /\ ev = <<>>
    /\ lret = -1

InitLife ==
    /\ pidFile \in InitPidFiles
    /\ logFile \in BOOLEAN
    /\ procs = [p \in Pids |-> DeadProc]
    /\ last = NoOp
    /\ MainIdle
    /\ ListenIdle

StartBackground ==
    \E u \in Users, b \in Backends, c \in ConfigPaths, ok \in BOOLEAN, np \in Pids :
        /\ ok => ~procs[np].alive
        /\ LET r == start_background(pidFile, logFile, procs, u, b, c, ok, np) IN
            /\ pidFile' = r.pidFile
            /\ logFile' = r.logFile
            /\ procs' = r.procs
            /\ last' = [op |-> "start", user |-> u, backend |-> b, config |-> c,
                        spawnOk |-> ok, ret |-> r.ret, raised |-> r.raised,
                        sig |-> r.sig, spawned |-> r.spawned,
                        prevOp |-> last.op, prevRet |-> last.ret]
            /\ UNCHANGED <<mainVars, listenVars>>

StopBackground ==
    \E u \in Users :
        LET r == stop_background(pidFile, logFile, procs, u) IN
            /\ pidFile' = r.pidFile
            /\ logFile' = r.logFile
            /\ procs' = r.procs
            /\ last' = [NoOp EXCEPT !.op = "stop", !.user = u, !.ret = r.ret,
                                    !.raised = r.raised, !.sig = r.sig,
                                    !.prevOp = last.op, !.prevRet = last.ret]
            /\ UNCHANGED <<mainVars, listenVars>>

\* a listener ends on its own (config error in the child, interrupt, crash)
Die ==
    \E p \in Pids :
        /\ procs[p].alive
        /\ procs' = Terminate(procs, p)
        /\ last' = [NoOp EXCEPT !.op = "die", !.prevOp = last.op, !.prevRet = last.ret]
        /\ UNCHANGED <<pidFile, logFile, mainVars, listenVars>>

NextLife == StartBackground \/ StopBackground \/ Die

SpecLife == InitLife /\ [][NextLife]_vars

(***************************************************************************)
(* Command surface: one invocation of main on drawn inputs                 *)
(***************************************************************************)
GoodServer == [kind |-> "map", base_url |-> <<"http://ha", "/">>, hasBaseUrl |-> TRUE,
               token |-> "T"]

Servers ==
    {GoodServer,
     [GoodServer EXCEPT !.token = Missing],
     [GoodServer EXCEPT !.hasBaseUrl = FALSE, !.base_url = <<>>],
     [GoodServer EXCEPT !.kind = "none"],
     [GoodServer EXCEPT !.kind = "missing"]}

EntryA == [kind |-> "map", name |-> "a", method |-> "post", endpoint |-> "/x",
           body |-> Missing, hotkey |-> NoHotkey]
EntryA2 == [kind |-> "map", name |-> "a", method |-> "get", endpoint |-> "/y",
            body |-> "{on}", hotkey |-> Hotkey(<<"ctrl", "l">>)]
EntryB == [kind |-> "map", name |-> "b", method |-> "post", endpoint |-> "/z",
           body |-> "{}", hotkey |-> Hotkey(<<"zz", "l">>)]
EntryEmptyName == [EntryA EXCEPT !.name = ""]
EntryNoName == [EntryA EXCEPT !.name = Missing]
EntryNoEndpoint == [EntryA2 EXCEPT !.endpoint = Missing]
EntryNone == [EntryA EXCEPT !.kind = "none"]

Entries == {EntryA, EntryA2, EntryB, EntryEmptyName, EntryNoName, EntryNoEndpoint, EntryNone}

SeqsUpTo(S, n) == UNION {[1..k -> S] : k \in 0..n}

ShortcutValues ==
    {[kind |-> k, items |-> <<>>] : k \in {"missing", "none", "map"}}
    \cup {[kind |-> "list", items |-> l] : l \in SeqsUpTo(Entries, MaxShortcuts)}

ConfigValues ==
    {NoValue} \cup {[kind |-> "map", server |-> sv, shortcuts |-> sh] :
                        sv \in Servers, sh \in ShortcutValues}

FilePaths == {"config.yaml", "conf.YML", "alt.json"}

\* Path.suffix
Suffix(path) ==
    CASE path = "config.yaml" -> ".yaml"
      [] path = "conf.YML" -> ".YML"
      [] OTHER -> ".json"

File(path, exists, content, value) ==
    [path |-> path, suffix |-> Suffix(path), exists |-> exists, content |-> content,
     value |-> value]

Triggers == {NoTrigger, Trigger(""), Trigger("a"), Trigger("c")}

Argvs ==
    [stop : BOOLEAN, background : BOOLEAN, list : BOOLEAN, listen : BOOLEAN,
     trigger : Triggers, backend : Backends]

\* configs used to walk every flag combination
RoutingFiles ==
    {File("config.yaml", TRUE, "yaml", [kind |-> "map", server |-> GoodServer,
                                       shortcuts |-> [kind |-> "list", items |-> l]]) :
        l \in {<<>>, <<EntryA, EntryA2>>, <<EntryB, EntryA>>, <<EntryEmptyName, EntryA>>}}
    \cup {File("config.yaml", FALSE, "yaml", NoValue),
          File("alt.json", TRUE, "yaml", NoValue),
          File("config.yaml", TRUE, "yaml",
               [kind |-> "map", server |-> [GoodServer EXCEPT !.token = Missing],
                shortcuts |-> [kind |-> "list", items |-> <<EntryA>>]])}

\* command lines used to walk every config value
ConfigArgvs ==
    {a \in Argvs : /\ ~a.stop /\ ~a.background /\ a.backend = "pynput"
                   /\ \/ a.list /\ ~a.listen /\ a.trigger = Trigger("a")
                      \/ ~a.list /\ ~a.listen /\ a.trigger = NoTrigger}

ConfigFiles ==
    {File(p, TRUE, c, v) : p \in FilePaths, c \in {"yaml", "json", "garbage"},
                           v \in ConfigValues}

HttpOutcomes ==
    {[kind |-> "response", status |-> 200], [kind |-> "response", status |-> 404],
     [kind |-> "timeout", status |-> 0], [kind |-> "transport", status |-> 0]}

Avails == {{"keyboard", "pynput"}, {"keyboard"}, {"pynput"}}

InitMain ==
    /\ pidFile \in {Absent, FileWith(Str(StalePid))}
    /\ logFile = FALSE
    /\ procs = [p \in Pids |-> DeadProc]
    /\ last = NoOp
    /\ \/ argv \in Argvs /\ cfgFile \in RoutingFiles
       \/ argv \in ConfigArgvs /\ cfgFile \in ConfigFiles
    /\ mpc = "start"
    /\ out = NoOut(pidFile, logFile, procs)
    /\ ListenIdle

Main ==
    /\ mpc = "start"
    /\ \E u \in Users, ok \in BOOLEAN, np \in Pids, h \in HttpOutcomes, av \in Avails :
        LET o == main(argv, cfgFile, pidFile, logFile, procs, u,
                      [spawnOk |-> ok, newPid |-> np, http |-> h, avail |-> av]) IN
            /\ out' = o
            /\ pidFile' = o.pidFile
            /\ logFile' = o.logFile
            /\ procs' = o.procs
    /\ mpc' = "done"
    /\ UNCHANGED <<last, argv, cfgFile, listenVars>>

NextMain == Main

SpecMain == InitMain /\ [][NextMain]_vars

(***************************************************************************)
(* Hotkey dispatcher: register_hotkeys run step by step, then key events   *)
(***************************************************************************)
ListenEntry(n, hk) ==
    [kind |-> "map", name |-> n, method |-> "post", endpoint |-> "/x", body |-> "{}",
     hotkey |-> hk]

ListenEntries ==
    {ListenEntry("a", NoneHotkey),
     ListenEntry("b", Hotkey(<<"ctrl", "l">>)),
     ListenEntry("c", Hotkey(<<"ctrl", " l">>)),
     ListenEntry("d", Hotkey(<<"zz", "l">>)),
     ListenEntry("e", Hotkey(<<"">>)),
     ListenEntry("f", Hotkey(<<"", "">>)),
     ListenEntry("g", Hotkey(<<"Alt", "k">>))}

ListenBackends == {"keyboard", "pynput", "evdev"}

NoEv == [kind |-> "none", combo |-> {}, fired |-> <<>>, inflight |-> 0, act |-> 0,
         report |-> ""]

InitListen ==
    /\ pidFile = Absent
    /\ logFile = FALSE
    /\ procs = [p \in Pids |-> DeadProc]
    /\ last = NoOp
    /\ MainIdle
    /\ lin \in [backend : ListenBackends, avail : Avails, server : {GoodServer},
                shortcuts : SeqsUpTo(ListenEntries, MaxShortcuts)]
    /\ lpc = "Idle"
    /\ idx = 0
    /\ hotkeys = <<>>
    /\ threads = [i \in 1..Len(lin.shortcuts) |-> 0]
    /\ started = 0
    /\ ev = NoEv
    /\ lret = -1

\* a callback closing over the loop variable: it sees the last shortcut of the list
handler_late_bound(shortcuts, i) == Len(shortcuts)

\* the callback bound at registration: the default argument fixes the shortcut
handler(shortcuts, i) == i

RECURSIVE SumTo(_, _)
SumTo(f, n) == IF n = 0 THEN 0 ELSE f[n] + SumTo(f, n - 1)

Total(f) == SumTo(f, Len(f))

\* the process ends: daemon threads end with it
NoThreads == [i \in 1..Len(lin.shortcuts) |-> 0]

\* register_hotkeys: pick the adapter; its availability check comes first
EnterRegister ==
    /\ lpc = "Idle"
    /\ IF BackendUsable(lin.backend, lin.avail)
       THEN lpc' = "Registering" /\ idx' = 1 /\ lret' = lret
       ELSE lpc' = "Aborted" /\ idx' = idx /\ lret' = 1
    /\ ev' = [NoEv EXCEPT !.kind = "enter"]
    /\ UNCHANGED <<lifeVars, mainVars, lin, hotkeys, threads, started>>

\* one iteration of the loop over shortcuts
RegisterStep ==
    /\ lpc = "Registering"
    /\ idx <= Len(lin.shortcuts)
    /\ LET r == RegisterOne(lin.backend, lin.shortcuts[idx]) IN
        /\ hotkeys' = IF r = "ok"
                      THEN Append(hotkeys, [combo |-> Combination(lin.shortcuts[idx].hotkey),
                                            act |-> handler(lin.shortcuts, idx)])
                      ELSE hotkeys
        /\ IF r = "ConfigError"
           THEN lpc' = "Aborted" /\ lret' = 1 /\ threads' = NoThreads /\ idx' = idx
           ELSE lpc' = lpc /\ lret' = lret /\ threads' = threads /\ idx' = idx + 1
        /\ ev' = [NoEv EXCEPT !.kind = "register", !.act = idx, !.report = r]
    /\ UNCHANGED <<lifeVars, mainVars, lin, started>>

\* keyboard.wait() / listener.start(); listener.join()
StartListening ==
    /\ lpc = "Registering"
    /\ idx > Len(lin.shortcuts)
    /\ lpc' = "Listening"
    /\ ev' = [NoEv EXCEPT !.kind = "listen"]
    /\ UNCHANGED <<lifeVars, mainVars, lin, idx, hotkeys, threads, started, lret>>

\* keyboard's hooks call back from add_hotkey on; pynput's only once its Listener runs
ObserverActive ==
    \/ lin.backend = "keyboard" /\ lpc \in {"Registering", "Listening"}
    \/ lin.backend = "pynput" /\ lpc = "Listening"

Count(sq, x) == Cardinality({k \in 1..Len(sq) : sq[k] = x})

\* the user completes a registered combination: every handler bound to it starts a thread
KeyEvent ==
    /\ ObserverActive
    /\ \E j \in 1..Len(hotkeys) :
        LET c == hotkeys[j].combo
            hit == SelectSeq(hotkeys, LAMBDA h : h.combo = c)
            fired == [k \in 1..Len(hit) |-> hit[k].act]
        IN  /\ started + Len(fired) <= MaxThreads
            /\ threads' = [i \in 1..Len(threads) |-> threads[i] + Count(fired, i)]
            /\ started' = started + Len(fired)
            /\ ev' = [NoEv EXCEPT !.kind = "key", !.combo = c, !.fired = fired,
                                  !.inflight = Total(threads)]
    /\ UNCHANGED <<lifeVars, mainVars, lin, lpc, idx, hotkeys, lret>>

\* a trigger_action thread ends, whatever the call's outcome
ThreadFinish ==
    /\ lpc \in {"Registering", "Listening"}
    /\ \E i \in 1..Len(threads), h \in HttpOutcomes :
        /\ threads[i] > 0
        /\ threads' = [threads EXCEPT ![i] = @ - 1]
        /\ ev' = [NoEv EXCEPT !.kind = "finish", !.act = i,
                     !.report = trigger_action(lin.server, lin.shortcuts[i], "hotkey", h).report]
    /\ UNCHANGED <<lifeVars, mainVars, lin, lpc, idx, hotkeys, started, lret>>

\* Ctrl+C or a termination signal ends the blocking wait
Interrupt ==
    /\ lpc = "Listening"
    /\ lpc' = "Terminated"
    /\ threads' = NoThreads
    /\ ev' = [NoEv EXCEPT !.kind = "interrupt"]
    /\ UNCHANGED <<lifeVars, mainVars, lin, idx, hotkeys, started, lret>>

NextListen ==
    EnterRegister \/ RegisterStep \/ StartListening \/ KeyEvent \/ ThreadFinish \/ Interrupt

SpecListen == InitListen /\ [][NextListen]_vars

(***************************************************************************)
(* Lifecycle claims (checked under SpecLife)                               *)
(***************************************************************************)
\* the pid recorded in a pid file, when its stripped text is an integer
HasReadablePid(pf) == pf.exists /\ IsIntText(Strip(pf.text))
RecordedPid(pf) == ParseInt(Strip(pf.text))

\* C1: when stop_background reads a pid from the pid file and the termination signal
\* fails with "permission denied", it returns 1 and the pid file is left intact
\* (still present, same content).
C1_PermissionDeniedKeepsPidFile ==
    [][(/\ last'.op = "stop"
        /\ HasReadablePid(pidFile)
        /\ KillOutcome(procs, last'.user, RecordedPid(pidFile)) = "EPERM")
       => (last'.ret = 1 /\ pidFile' = pidFile)]_vars

\* C2: at every instant at most one background listener spawned by the program is
\* alive, and if one is alive the pid file exists and records its process id.
C2_AtMostOneLiveListener ==
    /\ Cardinality(Alive(procs)) <= 1
    /\ \A p \in Alive(procs) : HasReadablePid(pidFile) /\ RecordedPid(pidFile) = p

\* C3: a start_background invoked while the pid file records a process id that answers
\* the liveness probe returns 1, spawns no child and leaves the pid file unchanged.
C3_StartRefusedWhenLive ==
    [][(/\ last'.op = "start"
        /\ HasReadablePid(pidFile)
        /\ KillOutcome(procs, last'.user, RecordedPid(pidFile)) = "ok")
       => (/\ last'.ret = 1
           /\ last'.raised = ""
           /\ last'.spawned = 0
           /\ procs' = procs
           /\ pidFile' = pidFile)]_vars

C3_Witness ==
    /\ last.op = "start"
    /\ last.prevOp = "start"
    /\ last.prevRet = 0
    /\ last.ret = 1
    /\ last.spawned = 0
    /\ HasReadablePid(pidFile)
    /\ KillOutcome(procs, last.user, RecordedPid(pidFile)) = "ok"

\* C4: for every pid-file state that records no live process (absent, empty,
\* unparseable, or a pid failing the probe) start_background removes the stale pid
\* file and either spawns exactly one child (listen forced, same config and backend),
\* writes its pid and returns 0, or, when spawning fails, returns 1 with no pid file.
RecordsNoLiveProcess(pf, pr, u) ==
    \/ ~pf.exists
    \/ Strip(pf.text) = <<>>
    \/ ~IsIntText(Strip(pf.text))
    \/ KillOutcome(pr, u, RecordedPid(pf)) # "ok"

C4_StartReplacesStalePidFile ==
    [][(/\ last'.op = "start"
        /\ RecordsNoLiveProcess(pidFile, procs, last'.user))
       => IF last'.spawnOk
          THEN /\ last'.ret = 0
               /\ last'.raised = ""
               /\ \E np \in Pids :
                    /\ ~procs[np].alive
                    /\ procs' = [procs EXCEPT ![np] =
                                    [alive |-> TRUE, owner |-> last'.user,
                                     cmd |-> [listen |-> TRUE, backend |-> last'.backend,
                                              config |-> last'.config]]]
                    /\ pidFile' = FileWith(Str(np))
          ELSE /\ last'.ret = 1
               /\ last'.raised = ""
               /\ procs' = procs
               /\ ~pidFile'.exists]_vars

\* C5: when stop_background reads a pid and the signal is delivered or meets "no such
\* process", the pid file and the log file are both absent afterwards and it returns
\* 0; a stop_background right after a stop that returned 0 finds no pid file,
\* returns 1 and delivers no signal.
C5_StopCleansUp ==
    [][/\ (/\ last'.op = "stop"
           /\ HasReadablePid(pidFile)
           /\ KillOutcome(procs, last'.user, RecordedPid(pidFile)) \in {"ok", "ESRCH"})
          => (/\ ~pidFile'.exists
              /\ ~logFile'
              /\ last'.ret = 0
              /\ last'.raised = ""
              /\ KillOutcome(procs', "root", RecordedPid(pidFile)) = "ESRCH")
       /\ (last.op = "stop" /\ last.ret = 0 /\ last'.op = "stop")
          => (/\ last'.ret = 1
              /\ last'.sig = "none"
              /\ procs' = procs
              /\ ~pidFile'.exists)]_vars

C5_Witness ==
    /\ last.op = "stop"
    /\ last.prevOp = "stop"
    /\ last.prevRet = 0
    /\ last.ret = 1
    /\ last.sig = "none"
    /\ ~pidFile.exists
    /\ ~logFile

(***************************************************************************)
(* Command-surface claims (checked under SpecMain)                         *)
(***************************************************************************)
Loaded == load_config(cfgFile)
Validated == validate_config(Loaded.value)
ConfigValid == Loaded.status = "ok" /\ Validated.status = "ok"
ConfigPath == ~argv.stop /\ ~argv.background

\* C6: main routes in strict priority order: --stop first (nothing else acted on, config
\* never loaded); then --background (config not loaded in the parent); then load and
\* validate (on failure exit code 1, no listing, no HTTP call, no dispatcher); then
\* --list (prints and continues); then --trigger (fires once and exits); and the
\* dispatcher starts iff that point is reached and --listen was given or none of
\* --list/--trigger/--listen was requested.
C6_ExpectedEvents ==
    IF argv.stop THEN <<"stop_background">>
    ELSE IF argv.background THEN <<"start_background">>
    ELSE IF Loaded.status # "ok" THEN <<"load_config">>
    ELSE IF Validated.status # "ok" THEN <<"load_config", "validate_config">>
    ELSE <<"load_config", "validate_config">>
         \o (IF argv.list THEN <<"list">> ELSE <<>>)
         \o (IF argv.trigger.given THEN <<"trigger">>
             ELSE IF argv.listen \/ (~argv.list /\ ~argv.trigger.given)
             THEN <<"register_hotkeys">>
             ELSE <<>>)

C6_RoutingPriority ==
    mpc = "done" =>
        /\ out.events = C6_ExpectedEvents
        /\ (ConfigPath /\ ~ConfigValid) =>
              (out.exit = 1 /\ out.listed = <<>> /\ out.http = <<>> /\ out.state = "exited")
        /\ (argv.stop \/ argv.background) =>
              (out.listed = <<>> /\ out.http = <<>> /\ out.state = "exited")

\* C7: for --trigger NAME on a valid config: no shortcut with exactly that name gives
\* zero HTTP calls and exit code 1; otherwise exactly one HTTP call is issued, for the
\* first shortcut in file order with that name, and the exit code is 0 whatever the
\* call's outcome.
C7_TriggerOnce ==
    (mpc = "done" /\ ConfigPath /\ ConfigValid /\ argv.trigger.given) =>
        LET shortcuts == Validated.cfg.shortcuts.items
            m == Matches(shortcuts, argv.trigger.name)
        IN  /\ out.state = "exited"
            /\ IF m = {}
               THEN out.http = <<>> /\ out.exit = 1
               ELSE /\ Len(out.http) = 1
                    /\ out.http[1].action = shortcuts[Min(m)]
                    /\ out.exit = 0

\* The routing as main codes it: the events of C6 with "--trigger requested" read as
\* `args.trigger` being a non-empty string. It differs from C6 for --trigger "" only.
RoutingAsCoded ==
    mpc = "done" =>
        out.events =
            IF argv.stop THEN <<"stop_background">>
            ELSE IF argv.background THEN <<"start_background">>
            ELSE IF Loaded.status # "ok" THEN <<"load_config">>
            ELSE IF Validated.status # "ok" THEN <<"load_config", "validate_config">>
            ELSE <<"load_config", "validate_config">>
                 \o (IF argv.list THEN <<"list">> ELSE <<>>)
                 \o (IF TriggerTruthy(argv.trigger) THEN <<"trigger">>
                     ELSE IF argv.listen \/ ~argv.list THEN <<"register_hotkeys">>
                     ELSE <<>>)

\* The trigger path for a non-empty NAME: first match, one call, exit code 0 whatever
\* the call's outcome; no match, no call and exit code 1.
TriggerOnceNonEmptyName ==
    (mpc = "done" /\ ConfigPath /\ ConfigValid /\ TriggerTruthy(argv.trigger)) =>
        LET shortcuts == Validated.cfg.shortcuts.items
            m == Matches(shortcuts, argv.trigger.name)
        IN  /\ out.state = "exited"
            /\ IF m = {}
               THEN out.http = <<>> /\ out.exit = 1
               ELSE /\ Len(out.http) = 1
                    /\ out.http[1].action = shortcuts[Min(m)]
                    /\ out.exit = 0

\* C8: loading is all-or-nothing: load+validate either fails with ConfigError (always
\* when server, shortcuts, base_url or token is missing, shortcuts is no sequence, or
\* an entry lacks name/method/endpoint), and then no HTTP call is attempted and no
\* hotkey registered, or yields a Config whose shortcuts all have a non-empty name,
\* method and endpoint, a body and a hotkey value.
C8_MustFail(v) ==
    \/ v.kind # "map"
    \/ v.server.kind # "map"
    \/ ~v.server.hasBaseUrl
    \/ v.server.token = Missing
    \/ v.shortcuts.kind # "list"
    \/ \E i \in 1..Len(v.shortcuts.items) :
          \/ v.shortcuts.items[i].kind # "map"
          \/ \E k \in 1..Len(RequiredFields) : v.shortcuts.items[i][RequiredFields[k]] = Missing

C8_WellFormed(cfg) ==
    \A i \in 1..Len(cfg.shortcuts.items) :
        LET a == cfg.shortcuts.items[i] IN
            /\ a.name \notin {"", Missing}
            /\ a.method \notin {"", Missing}
            /\ a.endpoint \notin {"", Missing}
            /\ a.body # Missing
            /\ a.hotkey.set # "missing"

C8_AllOrNothing ==
    (mpc = "done" /\ ConfigPath) =>
        IF ConfigValid
        THEN ~C8_MustFail(Loaded.value) /\ C8_WellFormed(Validated.cfg)
        ELSE /\ out.raised = ""
             /\ out.exit = 1
             /\ out.http = <<>>
             /\ out.listed = <<>>
             /\ out.state = "exited"
             /\ out.events \in {<<"load_config">>, <<"load_config", "validate_config">>}

(***************************************************************************)
(* Dispatcher claims (checked under SpecListen)                            *)
(***************************************************************************)
Bound(i) == ~HotkeyFalsy(lin.shortcuts[i].hotkey)

\* the positions below n that carry a hotkey, in list order
RECURSIVE BoundBelow(_)
BoundBelow(n) ==
    IF n <= 1 THEN <<>>
    ELSE BoundBelow(n - 1) \o (IF Bound(n - 1) THEN <<n - 1>> ELSE <<>>)

Malformed(backend, hk) ==
    IF backend = "keyboard" THEN ~KeyboardAccepts(hk)
    ELSE \/ to_pynput_combo(hk).status # "ok"
         \/ ~PynputParses(to_pynput_combo(hk).parts)

RegistrationFails ==
    \/ lin.backend \notin {"keyboard", "pynput"}
    \/ lin.backend \notin lin.avail
    \/ \E i \in 1..Len(lin.shortcuts) : Bound(i) /\ Malformed(lin.backend, lin.shortcuts[i].hotkey)

LpcOrder ==
    {<<"Idle", "Registering">>, <<"Idle", "Aborted">>, <<"Registering", "Registering">>,
     <<"Registering", "Aborted">>, <<"Registering", "Listening">>,
     <<"Listening", "Listening">>, <<"Listening", "Terminated">>}

\* C9: the listener goes Idle -> Registering -> Listening -> Terminated; shortcuts are
\* registered in the Config's order, one without a hotkey is skipped without error and
\* never dispatched; if any registration fails (backend unavailable or unknown, or a
\* malformed hotkey at any position) the command aborts with exit code 1, never
\* reaches Listening, and no hotkey fires an action after the failure.
C9_RegisterThenListen ==
    /\ [](/\ lpc \in {"Registering", "Listening", "Terminated"} =>
                [k \in 1..Len(hotkeys) |-> hotkeys[k].act] =
                    BoundBelow(IF lpc = "Registering" THEN idx ELSE Len(lin.shortcuts) + 1)
          /\ lpc = "Aborted" => [k \in 1..Len(hotkeys) |-> hotkeys[k].act] = BoundBelow(idx)
          /\ \A i \in 1..Len(lin.shortcuts) :
                ~Bound(i) => (threads[i] = 0 /\ Count(ev.fired, i) = 0)
          /\ RegistrationFails => lpc \notin {"Listening", "Terminated"}
          /\ (lpc \in {"Listening", "Terminated"}) => idx = Len(lin.shortcuts) + 1
          /\ lpc = "Aborted" <=> lret = 1
          /\ lpc = "Aborted" => Total(threads) = 0)
    /\ [][/\ <<lpc, lpc'>> \in LpcOrder
          /\ lpc = "Aborted" => (started' = started /\ threads' = threads)
          /\ (ev'.kind = "register" /\ ~Bound(idx)) => (lpc' = lpc /\ idx' = idx + 1)]_vars

C9_Witness ==
    /\ lpc = "Aborted"
    /\ lret = 1
    /\ idx = 2
    /\ Len(hotkeys) = 1
    /\ Bound(idx)
    /\ Malformed(lin.backend, lin.shortcuts[idx].hotkey)

\* the shortcuts registered so far that are bound to combination c
BoundTo(c) == {i \in 1..Len(lin.shortcuts) :
                  i < idx /\ Bound(i) /\ Combination(lin.shortcuts[i].hotkey) = c}

\* C10: while listening, each completion of a registered combination starts exactly one
\* executor thread for each shortcut bound to it (two shortcuts on the same combination
\* both fire), each with the shortcut it was registered for; the observer never waits
\* for a call (key events go on while calls are in flight), and a call that ends,
\* failed or not, changes neither the listener nor any other call.
C10_FireAndForget ==
    /\ [][/\ started' # started =>
                /\ ev'.kind = "key"
                /\ BoundTo(ev'.combo) # {}
                /\ \A i \in 1..Len(lin.shortcuts) :
                      threads'[i] - threads[i] = IF i \in BoundTo(ev'.combo) THEN 1 ELSE 0
                /\ started' - started = Cardinality(BoundTo(ev'.combo))
                /\ lpc' = lpc /\ hotkeys' = hotkeys
          /\ ev'.kind = "finish" =>
                /\ threads' = [threads EXCEPT ![ev'.act] = @ - 1]
                /\ lpc' = lpc /\ hotkeys' = hotkeys /\ started' = started /\ lret' = lret]_vars
    /\ [](lpc = "Listening" =>
            \A j \in 1..Len(hotkeys) :
                started + Cardinality(BoundTo(hotkeys[j].combo)) <= MaxThreads
                    => ENABLED (KeyEvent /\ ev'.combo = hotkeys[j].combo))

C10_Witness ==
    /\ lpc = "Listening"
    /\ ev.kind = "key"
    /\ ev.inflight >= 1
    /\ Len(ev.fired) = 2
    /\ ev.fired[1] # ev.fired[2]
    /\ Total(threads) = 3

====
